---- MODULE Spec2Model ----
(***************************************************************************)
(* A model of the request-dispatch engine of WebClient (src/src/index.ts): *)
(* the concurrency-limited request queue, the retry driver, the rate-limit *)
(* (HTTP 429) protocol, the result builder and the cursor paginator.       *)
(*                                                                         *)
(* Spec    : NumCalls concurrent apiCall invocations on one client.        *)
(* FairSpec: Spec with the timers and HTTP exchanges always completing.    *)
(* PagSpec : one paginate() sequence driven by a consumer.                 *)
(***************************************************************************)
EXTENDS Integers, Sequences, FiniteSets, TLC

\* ------------------------------------------------------------------ bounds
NumCalls == 3          \* apiCall invocations issued on the client
MaxConcurrency == 2    \* largest maxRequestConcurrency tried
MaxRetries == 1        \* largest retryConfig.retries tried
MaxPages == 3          \* largest number of pages the backend serves
MaxEntries == 2        \* most entries of an options object given to the serializer

Calls == 1..NumCalls

\* --------------------------------------------------------- program constants
defaultPageSize == 200
defaultMaxRequestConcurrency == 3
tenRetries == 10

VARIABLES
    cfg,            \* constructor options: concurrency, rejectRateLimitedCalls, retries
    pc,             \* per call: where the apiCall is
    attempts,       \* per call: the retry driver's attempt number of the current attempt
    queue,          \* PQueue: tasks waiting for a slot, in queue order
    pendingCount,   \* PQueue: tasks started and not yet finished
    isPaused,       \* PQueue: pause flag
    invoked,        \* the apiCall the latest step invoked, and the typeof its options
    exchanged,      \* the HTTP exchange the latest step completed: call, attempt, response
    settled,        \* the apiCall promise the latest step settled, and how
    dispatched,     \* the details of the rate_limited events the latest step dispatched
    eventSurplus,   \* history: events dispatched minus 429s with a valid header received
    arrivals,       \* history: the waiting tasks in the order requestQueue.add was called
    startsInOrder,  \* history: every task started was the earliest arrival still waiting
    pag,            \* the paginate() sequence and its consumer
    built,          \* buildResult: the response it is applied to and what it returned
    ser             \* serializeApiCallOptions: its arguments and what it returned

vars == <<cfg, pc, attempts, queue, pendingCount, isPaused, invoked, exchanged, settled,
          dispatched, eventSurplus, arrivals, startsInOrder, pag, built, ser>>

dispatchVars == <<cfg, pc, attempts, queue, pendingCount, isPaused, invoked, exchanged,
                  settled, dispatched, eventSurplus, arrivals, startsInOrder>>

\* ------------------------------------------------------- parseInt(s, 10)
\* Strings are sequences of one-character strings.
DigitChars == {"0", "1", "2", "3", "4", "5", "6", "7", "8", "9"}

DigitVal(ch) ==
    CASE ch = "0" -> 0 [] ch = "1" -> 1 [] ch = "2" -> 2 [] ch = "3" -> 3
      [] ch = "4" -> 4 [] ch = "5" -> 5 [] ch = "6" -> 6 [] ch = "7" -> 7
      [] ch = "8" -> 8 [] ch = "9" -> 9

RECURSIVE SkipWhiteSpace(_)
SkipWhiteSpace(s) ==
    IF s # <<>> /\ Head(s) = " " THEN SkipWhiteSpace(Tail(s)) ELSE s

RECURSIVE DigitsValue(_, _)
DigitsValue(s, acc) ==
    IF s # <<>> /\ Head(s) \in DigitChars
    THEN DigitsValue(Tail(s), acc * 10 + DigitVal(Head(s)))
    ELSE acc

\* parseInt: leading white space skipped, optional sign, then the longest run
\* of digits; NaN when that run is empty.  Trailing characters are ignored.
parseInt(s) ==
    LET t == SkipWhiteSpace(s)
        signed == t # <<>> /\ Head(t) \in {"-", "+"}
        u == IF signed THEN Tail(t) ELSE t
    IN  IF u = <<>> \/ Head(u) \notin DigitChars
        THEN [nan |-> TRUE, val |-> 0]
        ELSE [nan |-> FALSE,
              val |-> IF signed /\ Head(t) = "-" THEN 0 - DigitsValue(u, 0)
                      ELSE DigitsValue(u, 0)]

\* ---------------------------------------------------- HTTP responses
\* A header is [present, value]; Headers.get gives null for an absent header
\* and `null as string` reaches parseInt as the text "null".
NoHeader == [present |-> FALSE, value |-> <<>>]
Header(s) == [present |-> TRUE, value |-> s]
HeaderText(h) == IF h.present THEN h.value ELSE <<"n", "u", "l", "l">>

RetryAfterHeaders ==
    { NoHeader, Header(<<"x">>), Header(<<"1">>), Header(<<" ", "2", "s">>) }

\* parseRetryHeaders without its NaN test.
parseRetryHeadersNoNaNTest(response) ==
    [defined |-> TRUE, sec |-> parseInt(HeaderText(response.retryAfter)).val]

\* Extract the advised wait (seconds) from the retry-after header.
\* Result: [defined |-> FALSE] or [defined |-> TRUE, sec |-> n].
parseRetryHeaders(response) ==
    LET retryAfter == parseInt(HeaderText(response.retryAfter))
    IN  IF ~retryAfter.nan
        THEN [defined |-> TRUE, sec |-> retryAfter.val]
        ELSE [defined |-> FALSE, sec |-> 0]

\* JavaScript objects are records; {} is the record with no field.
EmptyObject == [k \in {} |-> TRUE]
SetField(obj, key, value) ==
    [k \in DOMAIN obj \cup {key} |-> IF k = key THEN value ELSE obj[k]]

\* Response bodies: objects are records, an absent key is absent from DOMAIN.
Bodies ==
    { [ok |-> TRUE],
      [ok |-> FALSE, error |-> "channel_not_found"],
      [error |-> "no_ok_flag"] }

NetworkFailures == { [net |-> TRUE, request |-> r] : r \in BOOLEAN }

HttpResponses ==
    { [net |-> FALSE, status |-> 200, retryAfter |-> NoHeader, data |-> d,
       xOauthScopes |-> NoHeader, xAcceptedOauthScopes |-> NoHeader] : d \in Bodies }
    \cup { [net |-> FALSE, status |-> 429, retryAfter |-> h, data |-> [ok |-> FALSE],
             xOauthScopes |-> NoHeader, xAcceptedOauthScopes |-> NoHeader] :
              h \in RetryAfterHeaders }
    \cup { [net |-> FALSE, status |-> 500, retryAfter |-> NoHeader, data |-> [ok |-> FALSE],
             xOauthScopes |-> NoHeader, xAcceptedOauthScopes |-> NoHeader] }

Exchanges == NetworkFailures \cup HttpResponses

\* A 429 whose retry-after header is present and starts, after optional white
\* space and sign, with a decimal digit.
IsValid429(x) ==
    /\ ~x.net
    /\ x.status = 429
    /\ x.retryAfter.present
    /\ LET t == SkipWhiteSpace(x.retryAfter.value)
           u == IF t # <<>> /\ Head(t) \in {"-", "+"} THEN Tail(t) ELSE t
       IN  u # <<>> /\ Head(u) \in DigitChars

NoResponse == [net |-> FALSE, status |-> 0]

\* ------------------------------------------------------------- errors.ts
\* Every error has a message, a record [text, ...]; the typed ones a code too.
platformErrorFromResult(result) ==
    [code |-> "slack_webapi_platform_error",
     message |-> [text |-> "An API error occurred",
                  error |-> IF "error" \in DOMAIN result THEN result.error ELSE "undefined"],
     data |-> result]

httpErrorFromResponse(response) ==
    [code |-> "slack_webapi_http_error",
     message |-> [text |-> "An HTTP protocol error occurred", statusCode |-> response.status],
     statusCode |-> response.status,
     body |-> response.data]

requestErrorWithOriginal(original) ==
    [code |-> "slack_webapi_request_error",
     message |-> [text |-> "A request error occurred", original |-> original.message],
     original |-> original]

rateLimitedErrorWithDelay(retrySec) ==
    [code |-> "slack_webapi_rate_limited_error",
     message |-> [text |-> "A rate-limit has been reached", retryAfter |-> retrySec],
     retryAfter |-> retrySec]

\* Failures without a code: plain Error objects and the transport's exception.
RateLimitExceeded == [message |-> [text |-> "A rate limit was exceeded."]]
InvalidRetryHeader == [message |-> [text |-> "Retry header did not contain a valid timeout."]]
TransportFailure(r) == [message |-> [text |-> "transport failure"], request |-> r]
OptionsTypeError == [message |-> [text |-> "Expected an options argument"]]

\* ------------------------------------------------------------ buildResult
\* String.prototype.trim and split(/\s*,\s*/) of a trimmed string: the pieces
\* between the commas, the white space around each comma dropped.
RECURSIVE TrimEnd(_)
TrimEnd(s) ==
    IF s # <<>> /\ s[Len(s)] = " " THEN TrimEnd(SubSeq(s, 1, Len(s) - 1)) ELSE s

Trim(s) == TrimEnd(SkipWhiteSpace(s))

RECURSIVE SplitAtCommas(_, _)
SplitAtCommas(s, piece) ==
    IF s = <<>> THEN <<piece>>
    ELSE IF Head(s) = "," THEN <<piece>> \o SplitAtCommas(Tail(s), <<>>)
    ELSE SplitAtCommas(Tail(s), Append(piece, Head(s)))

TrimSplit(s) ==
    LET pieces == SplitAtCommas(Trim(s), <<>>)
    IN  [i \in 1..Len(pieces) |-> Trim(pieces[i])]

\* if (header) ...: the header is there and is not the empty string.
Truthy(h) == h.present /\ h.value # <<>>

\* Variant: response_metadata is not defaulted; what the headers would add to
\* it is added only when the body has one.
buildResultNoDefault(response) ==
    LET data == response.data
        retrySec == parseRetryHeaders(response)
    IN  IF "response_metadata" \notin DOMAIN data THEN data
        ELSE IF retrySec.defined
        THEN [data EXCEPT !.response_metadata = SetField(@, "retryAfter", retrySec.sec)]
        ELSE data

buildResult(response) ==
    LET data == response.data
        withMeta == IF "response_metadata" \notin DOMAIN data
                    THEN SetField(data, "response_metadata", EmptyObject)
                    ELSE data
        withScopes ==
            IF Truthy(response.xOauthScopes)
            THEN [withMeta EXCEPT !.response_metadata =
                        SetField(@, "scopes", TrimSplit(response.xOauthScopes.value))]
            ELSE withMeta
        withAccepted ==
            IF Truthy(response.xAcceptedOauthScopes)
            THEN [withScopes EXCEPT !.response_metadata =
                        SetField(@, "acceptedScopes",
                                 TrimSplit(response.xAcceptedOauthScopes.value))]
            ELSE withScopes
        retrySec == parseRetryHeaders(response)
    IN  IF retrySec.defined
        THEN [withAccepted EXCEPT !.response_metadata = SetField(@, "retryAfter", retrySec.sec)]
        ELSE withAccepted

\* ------------------------------------------------------------------ PQueue
\* Variant: the concurrency option is not passed on; PQueue then sets no limit.
QueueConcurrencyNotPassed == NumCalls + 1

\* new PQueue({ concurrency: maxRequestConcurrency })
QueueConcurrency == cfg.concurrency

\* Variant: retried attempts are added with a priority, ahead of first attempts.
TaskPriorityByAttempt(attempt) == attempt

\* requestQueue.add(fn) is called without options: every task has priority 0.
TaskPriority(attempt) == 0

\* The queue as a value: the three fields of PQueue and, in `started`, the
\* tasks the operation has started, in the order it started them.
QueueState == [queue |-> queue, pendingCount |-> pendingCount, isPaused |-> isPaused,
               started |-> <<>>]

\* A task starts only if the queue is not paused and a slot is free; the task
\* started is the one at the head of the queue.
CanStartAnother(q) ==
    q.queue # <<>> /\ ~q.isPaused /\ q.pendingCount < QueueConcurrency

TryToStartAnother(q) ==
    IF CanStartAnother(q)
    THEN [q EXCEPT !.queue = Tail(@),
                   !.started = Append(@, Head(q.queue).call),
                   !.pendingCount = @ + 1]
    ELSE q

RECURSIVE ProcessQueue(_)
ProcessQueue(q) ==
    IF CanStartAnother(q) THEN ProcessQueue(TryToStartAnother(q)) ELSE q

\* enqueue: behind every task of the same or a higher priority.
InsertByPriority(s, e) ==
    LET ahead == SelectSeq(s, LAMBDA x : x.priority >= e.priority)
        behind == SelectSeq(s, LAMBDA x : x.priority < e.priority)
    IN  ahead \o <<e>> \o behind

\* add(fn, options): enqueue, then try to start a task.
QueueAdd(q, c, priority) ==
    TryToStartAnother([q EXCEPT !.queue =
                            InsertByPriority(@, [call |-> c, priority |-> priority])])

\* A task finished (returned or threw): free its slot, try to start another.
QueueNext(q) == TryToStartAnother([q EXCEPT !.pendingCount = @ - 1])

QueuePause(q) == [q EXCEPT !.isPaused = TRUE]

QueueStart(q) ==
    IF ~q.isPaused THEN q ELSE ProcessQueue([q EXCEPT !.isPaused = FALSE])

Range(s) == { s[i] : i \in 1..Len(s) }
QueuedCalls == { e.call : e \in Range(queue) }

\* ------------------------------------------------------------ Retry Driver
\* Another attempt is scheduled while the policy's retries are not used up:
\* `retries` retries follow the first attempt.
CanRetry(attempt) == attempt <= cfg.retries

\* ------------------------------------------------- makeRequest: the task
\* What the queued task does with the outcome of its HTTP exchange, up to its
\* next suspension point:
\*   [type |-> "return", response]        the task returns the response
\*   [type |-> "abort", error]            it throws AbortError(error)
\*   [type |-> "throw", error]            it throws a retryable error
\*   [type |-> "wait", sec]               it paused the queue and awaits delay(sec)
\* `event` says whether a rate_limited event was dispatched (detail: sec).
RethrowAsIs(error) == error

\* catch (error): an error with a truthy `request` is wrapped as a request
\* error, any other is thrown again as it is.

Rethrow(error) ==
    IF "request" \in DOMAIN error /\ error.request
    THEN requestErrorWithOriginal(error)
    ELSE error

\* Variant: an HTTP error is thrown as an AbortError.
TaskOnExchangeHttpAborts(x) ==
    IF x.net
    THEN [type |-> "throw", error |-> Rethrow(TransportFailure(x.request)),
          event |-> FALSE, sec |-> 0]
    ELSE IF x.status = 429
    THEN LET retrySec == parseRetryHeaders(x)
         IN  IF retrySec.defined
             THEN IF cfg.rejectRateLimitedCalls
                  THEN [type |-> "abort", error |-> rateLimitedErrorWithDelay(retrySec.sec),
                        event |-> TRUE, sec |-> retrySec.sec]
                  ELSE [type |-> "wait", event |-> TRUE, sec |-> retrySec.sec]
             ELSE [type |-> "abort", error |-> InvalidRetryHeader,
                   event |-> FALSE, sec |-> 0]
    ELSE IF x.status # 200
    THEN [type |-> "abort", error |-> httpErrorFromResponse(x),
          event |-> FALSE, sec |-> 0]
    ELSE [type |-> "return", response |-> x, event |-> FALSE, sec |-> 0]

\* Variant: rejectRateLimitedCalls is not consulted.
TaskOnExchangeNeverRejects(x) ==
    IF x.net
    THEN [type |-> "throw", error |-> Rethrow(TransportFailure(x.request)),
          event |-> FALSE, sec |-> 0]
    ELSE IF x.status = 429
    THEN LET retrySec == parseRetryHeaders(x)
         IN  IF retrySec.defined
             THEN IF FALSE
                  THEN [type |-> "abort", error |-> rateLimitedErrorWithDelay(retrySec.sec),
                        event |-> TRUE, sec |-> retrySec.sec]
                  ELSE [type |-> "wait", event |-> TRUE, sec |-> retrySec.sec]
             ELSE [type |-> "abort", error |-> InvalidRetryHeader,
                   event |-> FALSE, sec |-> 0]
    ELSE IF x.status # 200
    THEN [type |-> "throw", error |-> Rethrow(httpErrorFromResponse(x)),
          event |-> FALSE, sec |-> 0]
    ELSE [type |-> "return", response |-> x, event |-> FALSE, sec |-> 0]

\* Variant: the event is dispatched only on the way to a rejection.
TaskOnExchangeEventOnReject(x) ==
    IF x.net
    THEN [type |-> "throw", error |-> Rethrow(TransportFailure(x.request)),
          event |-> FALSE, sec |-> 0]
    ELSE IF x.status = 429
    THEN LET retrySec == parseRetryHeaders(x)
         IN  IF retrySec.defined
             THEN IF cfg.rejectRateLimitedCalls
                  THEN [type |-> "abort", error |-> rateLimitedErrorWithDelay(retrySec.sec),
                        event |-> TRUE, sec |-> retrySec.sec]
                  ELSE [type |-> "wait", event |-> FALSE, sec |-> retrySec.sec]
             ELSE [type |-> "abort", error |-> InvalidRetryHeader,
                   event |-> FALSE, sec |-> 0]
    ELSE IF x.status # 200
    THEN [type |-> "throw", error |-> Rethrow(httpErrorFromResponse(x)),
          event |-> FALSE, sec |-> 0]
    ELSE [type |-> "return", response |-> x, event |-> FALSE, sec |-> 0]

\* Variant: the event is dispatched after the rejectRateLimitedCalls test.
TaskOnExchangeEventAfterReject(x) ==
    IF x.net
    THEN [type |-> "throw", error |-> Rethrow(TransportFailure(x.request)),
          event |-> FALSE, sec |-> 0]
    ELSE IF x.status = 429
    THEN LET retrySec == parseRetryHeaders(x)
         IN  IF retrySec.defined
             THEN IF cfg.rejectRateLimitedCalls
                  THEN [type |-> "abort", error |-> rateLimitedErrorWithDelay(retrySec.sec),
                        event |-> FALSE, sec |-> retrySec.sec]
                  ELSE [type |-> "wait", event |-> TRUE, sec |-> retrySec.sec]
             ELSE [type |-> "abort", error |-> InvalidRetryHeader,
                   event |-> FALSE, sec |-> 0]
    ELSE IF x.status # 200
    THEN [type |-> "throw", error |-> Rethrow(httpErrorFromResponse(x)),
          event |-> FALSE, sec |-> 0]
    ELSE [type |-> "return", response |-> x, event |-> FALSE, sec |-> 0]

TaskOnExchange(x) ==
    IF x.net
    THEN [type |-> "throw", error |-> Rethrow(TransportFailure(x.request)),
          event |-> FALSE, sec |-> 0]
    ELSE IF x.status = 429
    THEN LET retrySec == parseRetryHeaders(x)
         IN  IF retrySec.defined
             THEN IF cfg.rejectRateLimitedCalls
                  THEN [type |-> "abort", error |-> rateLimitedErrorWithDelay(retrySec.sec),
                        event |-> TRUE, sec |-> retrySec.sec]
                  ELSE [type |-> "wait", event |-> TRUE, sec |-> retrySec.sec]
             ELSE [type |-> "abort", error |-> InvalidRetryHeader,
                   event |-> FALSE, sec |-> 0]
    ELSE IF x.status # 200
    THEN [type |-> "throw", error |-> Rethrow(httpErrorFromResponse(x)),
          event |-> FALSE, sec |-> 0]
    ELSE [type |-> "return", response |-> x, event |-> FALSE, sec |-> 0]

\* Variant: the error thrown after the delay is an AbortError.
TaskOnDelayElapsedAborts == [type |-> "abort", error |-> RateLimitExceeded]

\* The task resumes after delay(retrySec * 1000): having restarted the queue
\* it throws a plain Error.
TaskOnDelayElapsed == [type |-> "throw", error |-> Rethrow(RateLimitExceeded)]

\* ----------------------------------------------- apiCall after makeRequest
Resolved(result) == [kind |-> "resolved", result |-> result]
Rejected(error) == [kind |-> "rejected", error |-> error]
Pending == [kind |-> "pending"]

\* What a step that settled or exchanged nothing leaves behind.
NoneSettled == [call |-> 0, outcome |-> Pending]
NoneExchanged == [call |-> 0, attempt |-> 0, response |-> NoResponse]
NoneInvoked == [call |-> 0, options |-> "undefined"]

\* Variant: only an explicit ok: false is taken as a failure.
ApiCallOnResponseOkNotFalse(response) ==
    LET result == buildResult(response)
    IN  IF "ok" \in DOMAIN result /\ ~result.ok
        THEN Rejected(platformErrorFromResult(result))
        ELSE Resolved(result)

ApiCallOnResponse(response) ==
    LET result == buildResult(response)
    IN  IF ~("ok" \in DOMAIN result /\ result.ok)
        THEN Rejected(platformErrorFromResult(result))
        ELSE Resolved(result)

\* -------------------------------------------------------------- the client
\* Were the tasks of `started` each, in turn, at the head of `waiting`?
RECURSIVE StartedFromHead(_, _)
StartedFromHead(started, waiting) ==
    \/ started = <<>>
    \/ /\ waiting # <<>>
       /\ Head(started) = Head(waiting)
       /\ StartedFromHead(Tail(started), Tail(waiting))

Without(s, S) == SelectSeq(s, LAMBDA e : e \notin S)

\* Install the queue value q; the tasks it started begin their HTTP exchange.
\* `waiting` lists the tasks that were waiting, the one just added included.
Commit(q, pcBase, waiting) ==
    /\ queue' = q.queue
    /\ pendingCount' = q.pendingCount
    /\ isPaused' = q.isPaused
    /\ pc' = [d \in Calls |-> IF d \in Range(q.started) THEN "inflight" ELSE pcBase[d]]
    /\ arrivals' = Without(waiting, Range(q.started))
    /\ startsInOrder' = (startsInOrder /\ StartedFromHead(q.started, waiting))

\* Variant: only the first attempt of a call is added to the queue.
StartAttemptOnlyFirstAdded(c, n) ==
    /\ attempts' = [attempts EXCEPT ![c] = n]
    /\ IF n = 1
       THEN Commit(QueueAdd(QueueState, c, TaskPriority(n)), [pc EXCEPT ![c] = "queued"],
                   Append(arrivals, c))
       ELSE Commit(QueueState, [pc EXCEPT ![c] = "queued"], arrivals)

\* The retry driver calls task(): requestQueue.add(...) for attempt n of call c.
StartAttempt(c, n) ==
    /\ attempts' = [attempts EXCEPT ![c] = n]
    /\ Commit(QueueAdd(QueueState, c, TaskPriority(n)), [pc EXCEPT ![c] = "queued"],
              Append(arrivals, c))

\* The promise of apiCall settles as o; the retry operation is dropped.
Settle(c, o) ==
    /\ settled' = [call |-> c, outcome |-> o]
    /\ attempts' = [attempts EXCEPT ![c] = 0]

\* Variant: a result that is not ok is handed to the retry driver as a
\* retryable failure.
TaskFinishedPlatformErrorRetried(c, t, q) ==
    CASE t.type = "return" ->
            LET o == ApiCallOnResponse(t.response)
            IN  IF o.kind = "rejected" /\ CanRetry(attempts[c])
                THEN /\ settled' = NoneSettled
                     /\ UNCHANGED attempts
                     /\ Commit(q, [pc EXCEPT ![c] = "backoff"], arrivals)
                ELSE /\ Settle(c, o)
                     /\ Commit(q, [pc EXCEPT ![c] = o.kind], arrivals)
      [] t.type = "abort" ->
            /\ Settle(c, Rejected(t.error))
            /\ Commit(q, [pc EXCEPT ![c] = "rejected"], arrivals)
      [] t.type = "throw" ->
            IF CanRetry(attempts[c])
            THEN /\ settled' = NoneSettled
                 /\ UNCHANGED attempts
                 /\ Commit(q, [pc EXCEPT ![c] = "backoff"], arrivals)
            ELSE /\ Settle(c, Rejected(t.error))
                 /\ Commit(q, [pc EXCEPT ![c] = "rejected"], arrivals)

\* The task of call c finished as t and the queue, advanced to q, goes on.
\* The retry driver decides; on a returned response apiCall builds the result.
TaskFinished(c, t, q) ==
    CASE t.type = "return" ->
            LET o == ApiCallOnResponse(t.response)
            IN  /\ Settle(c, o)
                /\ Commit(q, [pc EXCEPT ![c] = o.kind], arrivals)
      [] t.type = "abort" ->
            /\ Settle(c, Rejected(t.error))
            /\ Commit(q, [pc EXCEPT ![c] = "rejected"], arrivals)
      [] t.type = "throw" ->
            IF CanRetry(attempts[c])
            THEN /\ settled' = NoneSettled
                 /\ UNCHANGED attempts
                 /\ Commit(q, [pc EXCEPT ![c] = "backoff"], arrivals)
            ELSE /\ Settle(c, Rejected(t.error))
                 /\ Commit(q, [pc EXCEPT ![c] = "rejected"], arrivals)

OptionTypes == {"undefined", "object", "string", "number", "boolean"}

\* Variant: a boolean is let through.
IsPrimitiveBooleanForgotten(optionsType) == optionsType \in {"string", "number"}

\* typeof options === 'string' || typeof options === 'number' || typeof options === 'boolean'
IsPrimitive(optionsType) == optionsType \in {"string", "number", "boolean"}

\* apiCall(method, options) up to its first suspension.  Calls are numbered in
\* the order of their invocation.
ApiCall(c, optionsType) ==
    /\ pc[c] = "idle"
    /\ \A d \in Calls : d < c => pc[d] # "idle"
    /\ invoked' = [call |-> c, options |-> optionsType]
    /\ IF IsPrimitive(optionsType)
       THEN /\ pc' = [pc EXCEPT ![c] = "rejected"]
            /\ settled' = [call |-> c, outcome |-> Rejected(OptionsTypeError)]
            /\ UNCHANGED <<attempts, queue, pendingCount, isPaused, arrivals, startsInOrder>>
       ELSE /\ StartAttempt(c, 1)
            /\ settled' = NoneSettled
    /\ exchanged' = NoneExchanged
    /\ dispatched' = <<>>
    /\ UNCHANGED <<cfg, eventSurplus, pag, built, ser>>

\* Variant: a task that starts its rate-limit wait gives its slot back.
HttpExchangeDoneWaitFreesSlot(c, x) ==
    /\ pc[c] = "inflight"
    /\ LET t == TaskOnExchange(x)
       IN  /\ dispatched' = IF t.event THEN <<t.sec>> ELSE <<>>
           /\ eventSurplus' = eventSurplus + (IF t.event THEN 1 ELSE 0)
                                            - (IF IsValid429(x) THEN 1 ELSE 0)
           /\ IF t.type = "wait"
              THEN /\ Commit(QueueNext(QueuePause(QueueState)),
                             [pc EXCEPT ![c] = "ratewait"], arrivals)
                   /\ settled' = NoneSettled
                   /\ UNCHANGED attempts
              ELSE TaskFinished(c, t, QueueNext(QueueState))
    /\ exchanged' = [call |-> c, attempt |-> attempts[c], response |-> x]
    /\ invoked' = NoneInvoked
    /\ UNCHANGED <<cfg, pag, built, ser>>

\* The HTTP exchange of call c completes with x; the task runs on from there.
HttpExchangeDone(c, x) ==
    /\ pc[c] = "inflight"
    /\ LET t == TaskOnExchange(x)
       IN  /\ dispatched' = IF t.event THEN <<t.sec>> ELSE <<>>
           /\ eventSurplus' = eventSurplus + (IF t.event THEN 1 ELSE 0)
                                            - (IF IsValid429(x) THEN 1 ELSE 0)
           /\ IF t.type = "wait"
              THEN /\ Commit(QueuePause(QueueState), [pc EXCEPT ![c] = "ratewait"], arrivals)
                   /\ settled' = NoneSettled
                   /\ UNCHANGED attempts
              ELSE TaskFinished(c, t, QueueNext(QueueState))
    /\ exchanged' = [call |-> c, attempt |-> attempts[c], response |-> x]
    /\ invoked' = NoneInvoked
    /\ UNCHANGED <<cfg, pag, built, ser>>

\* Variant: the task that ends its wait throws without restarting the queue.
RateLimitDelayDoneNoStart(c) ==
    /\ pc[c] = "ratewait"
    /\ TaskFinished(c, TaskOnDelayElapsed, QueueNext(QueueState))
    /\ invoked' = NoneInvoked
    /\ exchanged' = NoneExchanged
    /\ dispatched' = <<>>
    /\ UNCHANGED <<cfg, eventSurplus, pag, built, ser>>

\* Variant: the task that ends its wait keeps its slot.
RateLimitDelayDoneKeepsSlot(c) ==
    /\ pc[c] = "ratewait"
    /\ TaskFinished(c, TaskOnDelayElapsed, QueueStart(QueueState))
    /\ invoked' = NoneInvoked
    /\ exchanged' = NoneExchanged
    /\ dispatched' = <<>>
    /\ UNCHANGED <<cfg, eventSurplus, pag, built, ser>>

\* delay(retrySec * 1000) elapses: the task restarts the queue and throws.
RateLimitDelayDone(c) ==
    /\ pc[c] = "ratewait"
    /\ TaskFinished(c, TaskOnDelayElapsed, QueueNext(QueueStart(QueueState)))
    /\ invoked' = NoneInvoked
    /\ exchanged' = NoneExchanged
    /\ dispatched' = <<>>
    /\ UNCHANGED <<cfg, eventSurplus, pag, built, ser>>

\* The retry driver's backoff timer fires: the next attempt enters the queue.
RetryTimerFired(c) ==
    /\ pc[c] = "backoff"
    /\ StartAttempt(c, attempts[c] + 1)
    /\ invoked' = NoneInvoked
    /\ settled' = NoneSettled
    /\ exchanged' = NoneExchanged
    /\ dispatched' = <<>>
    /\ UNCHANGED <<cfg, eventSurplus, pag, built, ser>>

NoPagination == [mode |-> "none"]
NotBuilt == [done |-> FALSE]
NotSerialized == [done |-> FALSE]

Configs ==
    [concurrency : 1..MaxConcurrency, rejectRateLimitedCalls : BOOLEAN,
     retries : {0, MaxRetries}]

Init ==
    /\ cfg \in Configs
    /\ pc = [c \in Calls |-> "idle"]
    /\ attempts = [c \in Calls |-> 0]
    /\ queue = <<>>
    /\ pendingCount = 0
    /\ isPaused = FALSE
    /\ invoked = NoneInvoked
    /\ exchanged = NoneExchanged
    /\ settled = NoneSettled
    /\ dispatched = <<>>
    /\ eventSurplus = 0
    /\ arrivals = <<>>
    /\ startsInOrder = TRUE
    /\ pag = NoPagination
    /\ built = NotBuilt
    /\ ser = NotSerialized

Next ==
    \/ \E c \in Calls, t \in OptionTypes : ApiCall(c, t)
    \/ \E c \in Calls, x \in Exchanges : HttpExchangeDone(c, x)
    \/ \E c \in Calls : RateLimitDelayDone(c)
    \/ \E c \in Calls : RetryTimerFired(c)

Spec == Init /\ [][Next]_vars

\* Every timer fires and every HTTP exchange completes.
FairSpec == Spec /\ WF_vars(Next)

\* In flight: queue tasks started and not yet finished.
InFlight == { c \in Calls : pc[c] \in {"inflight", "ratewait"} }

\* --------------------------------------------------------------- paginate
\* Option values carry their typeof; a cursor is a string (a sequence of
\* characters, '' being the empty one).
Num(n) == [type |-> "number", number |-> n]
Str(t) == [type |-> "string", string |-> t]

\* { ...a, ...b }
Spread(a, b) == [k \in DOMAIN a \cup DOMAIN b |-> IF k \in DOMAIN b THEN b[k] ELSE a[k]]
DeleteField(obj, key) == [k \in DOMAIN obj \ {key} |-> obj[k]]

Undefined == [defined |-> FALSE]
Defined(v) == [defined |-> TRUE, value |-> v]

\* The backend: pag.pages pages; page i < pages names page i + 1 in its
\* next_cursor, the last page ends the listing the way pag.last says.
CursorOf(i) == [j \in 1..i |-> "c"]
LastPageKinds == {"no_metadata", "no_cursor", "empty_cursor"}

PageBody(i) ==
    IF i < pag.pages
    THEN [ok |-> TRUE, page |-> i, response_metadata |-> [next_cursor |-> CursorOf(i)]]
    ELSE CASE pag.last = "no_metadata" -> [ok |-> TRUE, page |-> i]
           [] pag.last = "no_cursor" ->
                [ok |-> TRUE, page |-> i, response_metadata |-> EmptyObject]
           [] pag.last = "empty_cursor" ->
                [ok |-> TRUE, page |-> i, response_metadata |-> [next_cursor |-> <<>>]]

PageRequested(request) ==
    IF "cursor" \in DOMAIN request THEN Len(request.cursor) + 1 ELSE 1

Serve(request) ==
    LET i == PageRequested(request)
    IN  [net |-> FALSE, status |-> 200, retryAfter |-> NoHeader,
         xOauthScopes |-> NoHeader, xAcceptedOauthScopes |-> NoHeader,
         data |-> IF i <= pag.pages THEN PageBody(i)
                  ELSE [ok |-> FALSE, error |-> "invalid_cursor"]]

\* Variant: the test for the empty string is missing.
paginationOptionsForNextPageNoEmptyTest(previousResult, pageSize) ==
    IF /\ previousResult.defined
       /\ "response_metadata" \in DOMAIN previousResult.value
       /\ "next_cursor" \in DOMAIN previousResult.value.response_metadata
    THEN Defined([limit |-> Num(pageSize),
                  cursor |-> previousResult.value.response_metadata.next_cursor])
    ELSE Undefined

paginationOptionsForNextPage(previousResult, pageSize) ==
    IF /\ previousResult.defined
       /\ "response_metadata" \in DOMAIN previousResult.value
       /\ "next_cursor" \in DOMAIN previousResult.value.response_metadata
       /\ previousResult.value.response_metadata.next_cursor # <<>>
    THEN Defined([limit |-> Num(pageSize),
                  cursor |-> previousResult.value.response_metadata.next_cursor])
    ELSE Undefined

\* The options a caller passes to paginate.
PaginateOptions ==
    { Undefined, Defined(EmptyObject),
      Defined([limit |-> Num(50)]), Defined([limit |-> Str(<<"5", "0">>)]),
      Defined([cursor |-> CursorOf(1)]),
      Defined([limit |-> Num(50), cursor |-> CursorOf(1)]) }

\* pageSize, and options after `delete options.limit`.
HasNumericLimit(options) ==
    options.defined /\ "limit" \in DOMAIN options.value /\ options.value.limit.type = "number"

\* Variant: the caller's limit is not looked at.
PageSizeOfAlwaysDefault(options) == defaultPageSize

PageSizeOf(options) ==
    IF HasNumericLimit(options) THEN options.value.limit.number ELSE defaultPageSize

OptionsAfterPageSize(options) ==
    IF HasNumericLimit(options) THEN Defined(DeleteField(options.value, "limit")) ELSE options

\* generatePages: the options of the first iteration.  p is the state of the
\* paginate call (its closure) the generator runs in.
FirstPaginationOptions(p) ==
    IF p.options.defined /\ "cursor" \in DOMAIN p.options.value
    THEN Defined([limit |-> Num(p.pageSize), cursor |-> p.options.value.cursor])
    ELSE Defined([limit |-> Num(p.pageSize)])

\* Variant: the spread is written the other way round.
PageRequestOptionsLast(p, paginationOptions) ==
    Spread(paginationOptions.value,
           IF p.options.defined THEN p.options.value ELSE EmptyObject)

\* this.apiCall(method, { ...(options !== undefined ? options : {}), ...paginationOptions })
PageRequest(p, paginationOptions) ==
    Spread(IF p.options.defined THEN p.options.value ELSE EmptyObject,
           paginationOptions.value)

\* The generator runs from where it is suspended to its next apiCall, or ends.
GenResume(p) ==
    LET paginationOptions ==
            IF p.gen = "suspendedStart" THEN FirstPaginationOptions(p)
            ELSE paginationOptionsForNextPage(p.result, p.pageSize)
    IN  IF ~p.result.defined \/ paginationOptions.defined
        THEN [p EXCEPT !.gen = "awaiting",
                       !.paginationOptions = paginationOptions,
                       !.requests = Append(@, PageRequest(p, paginationOptions))]
        ELSE [p EXCEPT !.gen = "completed", !.paginationOptions = paginationOptions]

\* The stop predicates tried: shouldStop(page) is truthy on the pages of a set.
\* The reducers tried: none given (noopPageReducer, which returns undefined),
\* or one that collects what it is called with.
StopPredicates == { Defined(S) : S \in SUBSET (1..MaxPages) }
Reducers == {"undefined", "collect"}

shouldStop(p, page) == page.page \in p.shouldStop.value

pageReducer(p, accumulator, page, index) ==
    IF p.reduce = "collect"
    THEN Defined(Append(IF accumulator.defined THEN accumulator.value ELSE <<>>,
                        [page |-> page.page, index |-> index,
                         accumulated |-> accumulator.defined]))
    ELSE Undefined

\* The calls of the caller's two functions are logged in pag.log.
\* accumulator = pageReducer(accumulator, page, index)
Reduced(p, page) ==
    [p EXCEPT !.accumulator = pageReducer(p, p.accumulator, page, p.index),
              !.log = Append(@, [fn |-> "reduce", page |-> page.page, index |-> p.index])]

\* shouldStop(page)
Tested(p, page) ==
    [p EXCEPT !.log = Append(@, [fn |-> "shouldStop", page |-> page.page])]

\* Variant: the stop predicate is put to a page before the page is reduced,
\* and the index is advanced before the reducer is called.
DrivenOnPageTestedFirst(p, page) ==
    LET q == Reduced([Tested(p, page) EXCEPT !.index = @ + 1], page)
    IN  IF shouldStop(p, page)
        THEN [q EXCEPT !.gen = IF p.index = 0 THEN "suspendedYield" ELSE "completed",
                       !.promise = "resolved"]
        ELSE GenResume(q)

\* Variant: the first page is not put to the stop predicate.
DrivenOnPageFirstNotTested(p, page) ==
    LET r == Reduced(p, page)
        q == IF p.index = 0 THEN r ELSE Tested(r, page)
    IN  IF p.index = 0
        THEN GenResume([q EXCEPT !.index = 1])
        ELSE IF shouldStop(p, page)
             THEN [q EXCEPT !.gen = "completed", !.promise = "resolved"]
             ELSE GenResume([q EXCEPT !.index = @ + 1])

\* The body of driven paginate on a page the iterator delivered: reduce, test
\* the stop predicate, and otherwise ask the iterator for the next page.
\* Returning out of `for await` closes the iterator.
DrivenOnPage(p, page) ==
    LET q == Tested(Reduced(p, page), page)
    IN  IF p.index = 0
        THEN IF shouldStop(p, page)
             THEN [q EXCEPT !.index = 1, !.gen = "suspendedYield", !.promise = "resolved"]
             ELSE GenResume([q EXCEPT !.index = 1])
        ELSE IF shouldStop(p, page)
             THEN [q EXCEPT !.gen = "completed", !.promise = "resolved"]
             ELSE GenResume([q EXCEPT !.index = @ + 1])

\* The iterator is exhausted: driven paginate returns the accumulator.
DrivenSettled(p) ==
    IF p.promise = "pending" /\ p.gen = "completed"
    THEN [p EXCEPT !.promise = "resolved"]
    ELSE p

\* Variant: the generator is started when it is created, in bare mode too.
PaginateEager(options, stop, reduce) ==
    /\ pag.mode = "none"
    /\ LET p == [pag EXCEPT !.given = options,
                            !.pageSize = PageSizeOf(options),
                            !.options = OptionsAfterPageSize(options),
                            !.gen = "suspendedStart"]
       IN  pag' = IF ~stop.defined
                  THEN GenResume([p EXCEPT !.mode = "bare"])
                  ELSE GenResume([p EXCEPT !.mode = "driven", !.shouldStop = stop,
                                           !.reduce = reduce, !.promise = "pending"])
    /\ UNCHANGED <<dispatchVars, built, ser>>

\* paginate(method, options, shouldStop, reduce): the page size is fixed; without
\* a stop predicate the generator is returned, not yet started; with one the
\* first page is asked for and a promise is returned.
Paginate(options, stop, reduce) ==
    /\ pag.mode = "none"
    /\ LET p == [pag EXCEPT !.given = options,
                            !.pageSize = PageSizeOf(options),
                            !.options = OptionsAfterPageSize(options),
                            !.gen = "suspendedStart"]
       IN  pag' = IF ~stop.defined
                  THEN [p EXCEPT !.mode = "bare"]
                  ELSE GenResume([p EXCEPT !.mode = "driven", !.shouldStop = stop,
                                           !.reduce = reduce, !.promise = "pending"])
    /\ UNCHANGED <<dispatchVars, built, ser>>

\* The consumer of the bare sequence pulls: next().
Pull ==
    /\ pag.mode = "bare"
    /\ pag.gen \in {"suspendedStart", "suspendedYield"}
    /\ pag' = [GenResume(pag) EXCEPT !.pulls = @ + 1]
    /\ UNCHANGED <<dispatchVars, built, ser>>

\* The apiCall of the generator settles: the result is yielded, or the
\* rejection is thrown out of the generator.  Driven paginate consumes the
\* page at once, and its promise rejects when the generator throws.
PageCallSettles ==
    /\ pag.gen = "awaiting"
    /\ LET o == ApiCallOnResponse(Serve(pag.requests[Len(pag.requests)]))
           yield == [pag EXCEPT !.gen = "suspendedYield",
                                !.result = Defined(o.result),
                                !.yielded = Append(@, o.result.page)]
       IN  pag' = IF o.kind = "resolved"
                  THEN IF pag.mode = "driven"
                       THEN DrivenSettled(DrivenOnPage(yield, o.result))
                       ELSE yield
                  ELSE [pag EXCEPT !.gen = "threw",
                                   !.promise = IF pag.mode = "driven" THEN "rejected" ELSE @]
    /\ UNCHANGED <<dispatchVars, built, ser>>

DefaultConfig ==
    [concurrency |-> defaultMaxRequestConcurrency, rejectRateLimitedCalls |-> FALSE,
     retries |-> tenRetries]

PagInit ==
    /\ cfg = DefaultConfig
    /\ pc = [c \in Calls |-> "idle"]
    /\ attempts = [c \in Calls |-> 0]
    /\ queue = <<>>
    /\ pendingCount = 0
    /\ isPaused = FALSE
    /\ invoked = NoneInvoked
    /\ exchanged = NoneExchanged
    /\ settled = NoneSettled
    /\ dispatched = <<>>
    /\ eventSurplus = 0
    /\ arrivals = <<>>
    /\ startsInOrder = TRUE
    /\ \E k \in 1..MaxPages, l \in LastPageKinds :
          pag = [mode |-> "none", pages |-> k, last |-> l,
                 given |-> Undefined, options |-> Undefined, pageSize |-> 0,
                 gen |-> "none", result |-> Undefined, paginationOptions |-> Undefined,
                 requests |-> <<>>, yielded |-> <<>>, pulls |-> 0,
                 shouldStop |-> Undefined, reduce |-> "undefined",
                 accumulator |-> Undefined, index |-> 0, promise |-> "none",
                 log |-> <<>>]
    /\ built = NotBuilt
    /\ ser = NotSerialized

PagNext ==
    \/ \E options \in PaginateOptions, stop \in {Undefined} \cup StopPredicates,
          reduce \in Reducers :
            /\ ~stop.defined => reduce = "undefined"
            /\ Paginate(options, stop, reduce)
    \/ Pull
    \/ PageCallSettles

PagSpec == PagInit /\ [][PagNext]_vars

\* ------------------------------------------------- buildResult on its own
\* The 200 responses buildResult is handed: bodies with and without a
\* response_metadata, the three headers it reads absent, empty or set.
BuildBodies ==
    Bodies \cup
    { [ok |-> TRUE, response_metadata |-> [next_cursor |-> <<"c">>]],
      [ok |-> FALSE, error |-> "invalid_auth",
       response_metadata |-> [messages |-> <<"[ERROR] invalid_auth">>]] }

ScopeHeaders ==
    { NoHeader, Header(<<>>), Header(<<"a">>), Header(<<" ", "a", " ", ",", "b", " ">>) }

BuildInputs ==
    { [net |-> FALSE, status |-> 200, retryAfter |-> h, data |-> d,
       xOauthScopes |-> x, xAcceptedOauthScopes |-> y] :
          h \in RetryAfterHeaders, d \in BuildBodies, x \in ScopeHeaders,
          y \in {NoHeader, Header(<<"a", ",", "b">>)} }

\* apiCall from the response makeRequest returned: buildResult, then the ok test.
Build ==
    /\ ~built.done
    /\ "response" \in DOMAIN built
    /\ built' = [done |-> TRUE, response |-> built.response,
                 result |-> buildResult(built.response),
                 outcome |-> ApiCallOnResponse(built.response)]
    /\ UNCHANGED <<dispatchVars, pag, ser>>

BuildInit ==
    /\ cfg = DefaultConfig
    /\ pc = [c \in Calls |-> "idle"]
    /\ attempts = [c \in Calls |-> 0]
    /\ queue = <<>>
    /\ pendingCount = 0
    /\ isPaused = FALSE
    /\ invoked = NoneInvoked
    /\ exchanged = NoneExchanged
    /\ settled = NoneSettled
    /\ dispatched = <<>>
    /\ eventSurplus = 0
    /\ arrivals = <<>>
    /\ startsInOrder = TRUE
    /\ pag = NoPagination
    /\ built \in { [done |-> FALSE, response |-> r] : r \in BuildInputs }
    /\ ser = NotSerialized

BuildNext == Build

BuildSpec == BuildInit /\ [][BuildNext]_vars

\* ------------------------------------------------ serializeApiCallOptions
\* Strings are sequences of characters.  The values of options:
\*   [type |-> "undefined"], [type |-> "null"], Str(chars), Num(n),
\*   Bool(b), Arr(numbers) (a structure, JSON-encoded), ABlob, AFile(name).
Bool(b) == [type |-> "boolean", boolean |-> b]
Arr(a) == [type |-> "object", array |-> a]
JsUndefined == [type |-> "undefined"]
JsNull == [type |-> "null"]
ABlob == [type |-> "blob"]
AFile(name) == [type |-> "file", name |-> name]

\* value instanceof Blob (a File is a Blob).
InstanceOfBlob(value) == value.type \in {"blob", "file"}

\* Number.prototype.toString of a natural number.
DigitChar(d) ==
    CASE d = 0 -> "0" [] d = 1 -> "1" [] d = 2 -> "2" [] d = 3 -> "3" [] d = 4 -> "4"
      [] d = 5 -> "5" [] d = 6 -> "6" [] d = 7 -> "7" [] d = 8 -> "8" [] d = 9 -> "9"

RECURSIVE NatToString(_)
NatToString(n) ==
    IF n < 10 THEN <<DigitChar(n)>> ELSE NatToString(n \div 10) \o <<DigitChar(n % 10)>>

\* JSON.stringify of an array of natural numbers.
RECURSIVE JoinNumbers(_)
JoinNumbers(a) ==
    IF a = <<>> THEN <<>>
    ELSE IF Len(a) = 1 THEN NatToString(a[1])
    ELSE NatToString(a[1]) \o <<",">> \o JoinNumbers(Tail(a))

JSONStringify(value) == <<"[">> \o JoinNumbers(value.array) \o <<"]">>

\* value.toString() of a string, a number or a boolean.
valueToString(value) ==
    CASE value.type = "string" -> value.string
      [] value.type = "number" -> NatToString(value.number)
      [] value.type = "boolean" ->
            IF value.boolean THEN <<"t", "r", "u", "e">> ELSE <<"f", "a", "l", "s", "e">>

\* new URLSearchParams(pairs).toString(): the application/x-www-form-urlencoded
\* serializer.  Letters, digits and * - . _ stay, a space becomes +, every
\* other character its percent-encoded byte.
UrlUnreserved ==
    { "a", "b", "c", "d", "e", "f", "g", "h", "i", "j", "k", "l", "m", "n", "o", "p",
      "q", "r", "s", "t", "u", "v", "w", "x", "y", "z", "C", "T",
      "0", "1", "2", "3", "4", "5", "6", "7", "8", "9", "*", "-", ".", "_" }
UrlReserved == { "&", "=", "+", "%", "/", "[", "]", ",", "?" }

UrlEncodeChar(ch) ==
    CASE ch = " " -> <<"+">>
      [] ch \in UrlUnreserved -> <<ch>>
      [] ch = "&" -> <<"%", "2", "6">>
      [] ch = "=" -> <<"%", "3", "D">>
      [] ch = "+" -> <<"%", "2", "B">>
      [] ch = "%" -> <<"%", "2", "5">>
      [] ch = "/" -> <<"%", "2", "F">>
      [] ch = "[" -> <<"%", "5", "B">>
      [] ch = "]" -> <<"%", "5", "D">>
      [] ch = "," -> <<"%", "2", "C">>
      [] ch = "?" -> <<"%", "3", "F">>

RECURSIVE UrlEncode(_)
UrlEncode(t) == IF t = <<>> THEN <<>> ELSE UrlEncodeChar(Head(t)) \o UrlEncode(Tail(t))

RECURSIVE URLSearchParamsToString(_)
URLSearchParamsToString(pairs) ==
    IF pairs = <<>> THEN <<>>
    ELSE LET first == UrlEncode(pairs[1][1]) \o <<"=">> \o UrlEncode(pairs[1][2])
         IN  IF Len(pairs) = 1 THEN first
             ELSE first \o <<"&">> \o URLSearchParamsToString(Tail(pairs))

\* The application/x-www-form-urlencoded parser: split at &, each piece at its
\* first =, + is a space, %XY the byte XY.
SplitAt(t, sep) ==
    LET marks == {0, Len(t) + 1} \cup { i \in 1..Len(t) : t[i] = sep }
        Start(k) == CHOOSE m \in marks : Cardinality({ x \in marks : x < m }) = k - 1
    IN  [k \in 1..(Cardinality(marks) - 1) |-> SubSeq(t, Start(k) + 1, Start(k + 1) - 1)]

\* %XY is decoded where XY are the hexadecimal digits of a byte; the bytes that
\* occur are those UrlEncodeChar writes.
IsEscapeAt(t, i) ==
    /\ i >= 1
    /\ i + 2 <= Len(t)
    /\ t[i] = "%"
    /\ \E ch \in UrlReserved : UrlEncodeChar(ch) = <<"%", t[i + 1], t[i + 2]>>

PercentDecoded(x, y) == CHOOSE ch \in UrlReserved : UrlEncodeChar(ch) = <<"%", x, y>>

NotEmpty(t) == t # <<>>

UrlDecode(t) ==
    LET At(i) == IF IsEscapeAt(t, i) THEN <<PercentDecoded(t[i + 1], t[i + 2])>>
                 ELSE IF IsEscapeAt(t, i - 1) \/ IsEscapeAt(t, i - 2) THEN <<>>
                 ELSE IF t[i] = "+" THEN <<" ">>
                 ELSE <<t[i]>>
        kept == SelectSeq([i \in 1..Len(t) |-> At(i)], NotEmpty)
    IN  [i \in 1..Len(kept) |-> kept[i][1]]

IndexOfEquals(t) ==
    IF \E i \in 1..Len(t) : t[i] = "="
    THEN CHOOSE i \in 1..Len(t) : t[i] = "=" /\ \A j \in 1..(i - 1) : t[j] # "="
    ELSE Len(t) + 1

\* basename(path): what follows the last /.
RECURSIVE basename(_)
basename(path) ==
    IF \E i \in 1..Len(path) : path[i] = "/"
    THEN basename(SubSeq(path, (CHOOSE i \in 1..Len(path) : path[i] = "/"
                                    /\ \A j \in 1..(i - 1) : path[j] # "/") + 1, Len(path)))
    ELSE path

ContentType == <<"C", "o", "n", "t", "e", "n", "t", "-", "T", "y", "p", "e">>
FormUrlEncoded ==
    <<"a", "p", "p", "l", "i", "c", "a", "t", "i", "o", "n", "/", "x", "-", "w", "w", "w",
      "-", "f", "o", "r", "m", "-", "u", "r", "l", "e", "n", "c", "o", "d", "e", "d">>

\* Variant: every falsy value is dropped, not only undefined and null.
IsDroppedFalsy(value) ==
    \/ value.type \in {"undefined", "null"}
    \/ value.type = "string" /\ value.string = <<>>
    \/ value.type = "number" /\ value.number = 0
    \/ value.type = "boolean" /\ ~value.boolean

\* value === undefined || value === null
IsDropped(value) == value.type \in {"undefined", "null"}

\* The value of a flattened pair: a Blob as it is, a string, number or boolean
\* by toString, anything else JSON-encoded.
SerializedValue(value) ==
    IF InstanceOfBlob(value) THEN value
    ELSE IF value.type \in {"string", "number", "boolean"} THEN Str(valueToString(value))
    ELSE Str(JSONStringify(value))

\* Object.entries(options).flatMap(...): options is the sequence of its entries.
RECURSIVE Flattened(_)
Flattened(options) ==
    IF options = <<>> THEN <<>>
    ELSE IF IsDropped(options[1][2]) THEN Flattened(Tail(options))
    ELSE <<<<options[1][1], SerializedValue(options[1][2])>>>> \o Flattened(Tail(options))

ContainsBinaryData(options) ==
    \E i \in 1..Len(options) : ~IsDropped(options[i][2]) /\ InstanceOfBlob(options[i][2])

\* flattened.reduce(..., new FormData()): a File is appended under the
\* basename of its name.
FormOf(flattened) ==
    [i \in 1..Len(flattened) |->
        IF flattened[i][2].type = "file"
        THEN [name |-> flattened[i][1], value |-> flattened[i][2],
              filename |-> basename(flattened[i][2].name)]
        ELSE [name |-> flattened[i][1], value |-> flattened[i][2]]]

\* for (const [header, value] of form.entries()) headers[header] = value
RECURSIVE CopyEntries(_, _)
CopyEntries(form, headers) ==
    IF form = <<>> THEN headers
    ELSE CopyEntries(Tail(form), SetField(headers, form[1].name, form[1].value))

UrlPairs(flattened) ==
    [i \in 1..Len(flattened) |-> <<flattened[i][1], flattened[i][2].string>>]

serializeApiCallOptions(options, headers) ==
    LET flattened == Flattened(options)
    IN  IF ContainsBinaryData(options)
        THEN [body |-> [kind |-> "form", form |-> FormOf(flattened)],
              headers |-> CopyEntries(FormOf(flattened), headers)]
        ELSE [body |-> [kind |-> "string",
                        string |-> URLSearchParamsToString(UrlPairs(flattened))],
              headers |-> SetField(headers, ContentType, Str(FormUrlEncoded))]

\* The options tried: up to MaxEntries entries with different keys.
OptionKeys == { <<"a">>, <<"b", "=">>, ContentType }
OptionValues ==
    { JsUndefined, JsNull, ABlob, AFile(<<"d", "/", "f">>),
      Str(<<>>), Str(<<"a", " ", "&", "b", "=", "+", "%">>), Str(FormUrlEncoded),
      Num(0), Num(12), Bool(FALSE), Arr(<<1, 2>>) }

OptionsOfLength(n) ==
    { o \in [1..n -> OptionKeys \X OptionValues] :
          \A i, j \in 1..n : i # j => o[i][1] # o[j][1] }

SerInputs == UNION { OptionsOfLength(n) : n \in 0..MaxEntries }

Serialize ==
    /\ ~ser.done
    /\ "options" \in DOMAIN ser
    /\ LET r == serializeApiCallOptions(ser.options, EmptyObject)
       IN  ser' = [done |-> TRUE, options |-> ser.options,
                   body |-> r.body, headers |-> r.headers]
    /\ UNCHANGED <<dispatchVars, pag, built>>

SerInit ==
    /\ cfg = DefaultConfig
    /\ pc = [c \in Calls |-> "idle"]
    /\ attempts = [c \in Calls |-> 0]
    /\ queue = <<>>
    /\ pendingCount = 0
    /\ isPaused = FALSE
    /\ invoked = NoneInvoked
    /\ exchanged = NoneExchanged
    /\ settled = NoneSettled
    /\ dispatched = <<>>
    /\ eventSurplus = 0
    /\ arrivals = <<>>
    /\ startsInOrder = TRUE
    /\ pag = NoPagination
    /\ built = NotBuilt
    /\ ser \in { [done |-> FALSE, options |-> o] : o \in SerInputs }

SerNext == Serialize

SerSpec == SerInit /\ [][SerNext]_vars

ParseUrlEncoded(body) ==
    LET pieces == SelectSeq(SplitAt(body, "&"), NotEmpty)
    IN  [i \in 1..Len(pieces) |->
            LET eq == IndexOfEquals(pieces[i])
            IN  <<UrlDecode(SubSeq(pieces[i], 1, eq - 1)),
                  UrlDecode(SubSeq(pieces[i], eq + 1, Len(pieces[i])))>>]

\* ------------------------------------------------------ the latest step
HasExchanged == exchanged.call # 0
ExchangedHttp == HasExchanged /\ ~exchanged.response.net
ExchangedStatus(st) == ExchangedHttp /\ exchanged.response.status = st
Exchanged429 == ExchangedStatus(429)
ExchangedValid429 == HasExchanged /\ IsValid429(exchanged.response)
ExchangedInvalid429 == Exchanged429 /\ ~IsValid429(exchanged.response)
AdvisedDelay == parseInt(HeaderText(exchanged.response.retryAfter)).val
SettledCall(c) == settled.call = c /\ settled.outcome.kind # "pending"
RejectedWith(c, error) ==
    /\ settled = [call |-> c, outcome |-> Rejected(error)]
    /\ pc[c] = "rejected"
    /\ c \notin QueuedCalls

\* C1: with maxRequestConcurrency = N and more than N calls issued, the number
\* of HTTP exchanges in flight (tasks started and not finished, those waiting
\* out a rate-limit delay included) never exceeds N.
C1_InFlightBound ==
    /\ Cardinality(InFlight) <= cfg.concurrency
    /\ pendingCount = Cardinality(InFlight)

C1_Witness ==
    /\ NumCalls > cfg.concurrency
    /\ Cardinality(InFlight) = cfg.concurrency
    /\ queue # <<>>
    /\ \E c \in InFlight : pc[c] = "ratewait"

\* C2: on an HTTP 200 response apiCall resolves exactly when the body's ok
\* flag is true: with the body's fields as the result when it is, and rejecting
\* with a platform error that carries the error code and the full result when
\* it is not; whatever apiCall resolves to has ok = true.
C2_ResolvesIffOk ==
    /\ ExchangedStatus(200) =>
          LET c == exchanged.call
              data == exchanged.response.data
              okTrue == "ok" \in DOMAIN data /\ data.ok
          IN  /\ SettledCall(c)
              /\ okTrue <=> settled.outcome.kind = "resolved"
              /\ okTrue =>
                    /\ pc[c] = "resolved"
                    /\ \A k \in DOMAIN data : settled.outcome.result[k] = data[k]
              /\ ~okTrue =>
                    /\ pc[c] = "rejected"
                    /\ settled.outcome.error.code = "slack_webapi_platform_error"
                    /\ settled.outcome.error.data.error = data.error
                    /\ \A k \in DOMAIN data : settled.outcome.error.data[k] = data[k]
    /\ settled.outcome.kind = "resolved" => settled.outcome.result.ok

C2_Witness ==
    /\ ExchangedStatus(200)
    /\ "ok" \notin DOMAIN exchanged.response.data
    /\ settled.outcome.kind = "rejected"

C4_NeverFailsOnRateLimit ==
    ~cfg.rejectRateLimitedCalls =>
        ~(settled.outcome.kind = "rejected" /\ settled.outcome.error = RateLimitExceeded)

\* C4 amended: with the default configuration a 429 with a valid retry-after
\* header does not settle the call; the task waits, and while the policy has
\* retries left a fresh attempt follows, whose exchange eventually starts, so
\* that a later 200 with ok: true resolves the call.  Only when the retries
\* are used up does the call reject because of the 429.
C4_RateLimitedIsRetried ==
    /\ [](~cfg.rejectRateLimitedCalls /\ ExchangedValid429 =>
            settled = NoneSettled /\ pc[exchanged.call] = "ratewait")
    /\ [][ \A c \in Calls :
             (pc[c] = "ratewait" /\ pc'[c] # "ratewait") =>
                IF attempts[c] <= cfg.retries
                THEN pc'[c] \in {"backoff", "queued", "inflight"} /\ settled' = NoneSettled
                ELSE pc'[c] = "rejected" /\ settled'.call = c ]_vars
    /\ \A c \in Calls :
          (pc[c] = "ratewait" /\ attempts[c] <= cfg.retries)
              ~> (pc[c] = "inflight" /\ attempts[c] > 1)

C4_Witness ==
    /\ ~cfg.rejectRateLimitedCalls
    /\ ExchangedValid429
    /\ exchanged.attempt <= cfg.retries
    /\ pc[exchanged.call] = "ratewait"
    /\ isPaused

\* C5: with rejectRateLimitedCalls a 429 with a valid retry-after header
\* rejects the call at once with a rate-limit error carrying the advised
\* delay: no delay is waited, the queue is not paused, no attempt follows.
C5_RejectsRateLimited ==
    cfg.rejectRateLimitedCalls =>
        /\ ~isPaused
        /\ \A c \in Calls : pc[c] # "ratewait"
        /\ ExchangedValid429 =>
              /\ RejectedWith(exchanged.call,
                    [code |-> "slack_webapi_rate_limited_error",
                     message |-> [text |-> "A rate-limit has been reached",
                                  retryAfter |-> AdvisedDelay],
                     retryAfter |-> AdvisedDelay])
              /\ attempts[exchanged.call] = 0

C5_Witness ==
    /\ cfg.rejectRateLimitedCalls
    /\ ExchangedValid429
    /\ AdvisedDelay = 2
    /\ exchanged.attempt = 1

\* C6: with the default configuration every 429 with a valid retry-after
\* header dispatches exactly one rate_limited event, whose detail is the
\* advised delay in seconds, and nothing else dispatches one: as many events
\* have been dispatched as such responses received.
C6_OneEventPerValid429 ==
    ~cfg.rejectRateLimitedCalls =>
        /\ eventSurplus = 0
        /\ ExchangedValid429 => dispatched = <<AdvisedDelay>>
        /\ ~ExchangedValid429 => dispatched = <<>>

C6_Witness ==
    /\ ~cfg.rejectRateLimitedCalls
    /\ ExchangedValid429
    /\ dispatched = <<2>>

\* C7 as stated: every 429 response, in either setting of
\* rejectRateLimitedCalls, dispatches exactly one rate_limited event.
C7_OneEventPerAny429 ==
    Exchanged429 => Len(dispatched) = 1

\* C7 amended: every 429 response with a valid retry-after header dispatches
\* exactly one rate_limited event, whether the call is then retried or
\* rejected; a 429 without a valid header dispatches none.
C7_OneEventPerValid429EitherWay ==
    /\ ExchangedValid429 => Len(dispatched) = 1 /\ dispatched[1] = AdvisedDelay
    /\ ExchangedInvalid429 => dispatched = <<>>
    /\ eventSurplus = 0

C7_Witness ==
    /\ cfg.rejectRateLimitedCalls
    /\ ExchangedValid429
    /\ Len(dispatched) = 1
    /\ pc[exchanged.call] = "rejected"

\* C8: a 429 whose retry-after header is absent or is not an integer aborts:
\* in the step that receives it the call rejects, the queue's pause flag is
\* left as it was, no delay is waited and no attempt follows.
C8_InvalidHeaderAborts ==
    [][ (exchanged'.call # 0 /\ ~exchanged'.response.net
            /\ exchanged'.response.status = 429 /\ ~IsValid429(exchanged'.response)) =>
          LET c == exchanged'.call
          IN  /\ settled' = [call |-> c, outcome |-> Rejected(InvalidRetryHeader)]
              /\ pc'[c] = "rejected"
              /\ isPaused' = isPaused
              /\ attempts'[c] = 0
              /\ \A e \in Range(queue') : e.call # c
              /\ dispatched' = <<>> ]_vars

C8_Witness ==
    /\ ExchangedInvalid429
    /\ exchanged.response.retryAfter = Header(<<"x">>)
    /\ pc[exchanged.call] = "rejected"
    /\ isPaused

\* C9: tasks start in the order requestQueue.add was called: whenever a task
\* starts it is the earliest-added task still waiting, a retried attempt
\* taking its turn behind the tasks added before it.
C9_FifoStart ==
    /\ startsInOrder
    /\ arrivals = [i \in 1..Len(queue) |-> queue[i].call]

C9_Witness ==
    /\ startsInOrder
    /\ Len(queue) >= 2
    /\ attempts[queue[2].call] >= 2
    /\ attempts[queue[1].call] = 1


\* The page the sequence starts at: the one the caller's cursor names, else 1.
StartPage ==
    IF pag.given.defined /\ "cursor" \in DOMAIN pag.given.value
    THEN Len(pag.given.value.cursor) + 1
    ELSE 1

\* C10: bare paginate requests a page on the first pull and yields one result
\* per page requested; over a backend whose pages but the last carry a
\* non-empty next_cursor it issues one request per page, in order, never more
\* than there are pages, and the pull after the last page ends the sequence:
\* from the first page of k that makes k requests and k results.
C10_BarePaginateYieldsEveryPage ==
    pag.mode = "bare" =>
        /\ Len(pag.requests) = Len(pag.yielded) + (IF pag.gen \in {"awaiting", "threw"} THEN 1 ELSE 0)
        /\ pag.pulls = Len(pag.requests) + (IF pag.gen = "completed" THEN 1 ELSE 0)
        /\ pag.pulls >= 1 => Len(pag.requests) >= 1
        /\ \A i \in 1..Len(pag.yielded) : pag.yielded[i] = StartPage + i - 1
        /\ Len(pag.requests) <= (IF StartPage <= pag.pages THEN pag.pages - StartPage + 1 ELSE 1)
        /\ pag.gen = "completed" =>
              /\ StartPage <= pag.pages
              /\ Len(pag.yielded) = pag.pages - StartPage + 1
              /\ Len(pag.requests) = pag.pages - StartPage + 1
        /\ (pag.gen = "suspendedYield" /\ Len(pag.yielded) = pag.pages - StartPage + 1) =>
              ~paginationOptionsForNextPage(pag.result, pag.pageSize).defined

C10_Witness ==
    /\ pag.mode = "bare"
    /\ pag.gen = "completed"
    /\ pag.pages = 3
    /\ pag.last = "empty_cursor"
    /\ StartPage = 1
    /\ pag.yielded = <<1, 2, 3>>
    /\ Len(pag.requests) = 3

\* The cursor the caller passed to paginate, if any.
GivenCursor ==
    IF pag.given.defined /\ "cursor" \in DOMAIN pag.given.value
    THEN Defined(pag.given.value.cursor)
    ELSE Undefined

\* C11: within a pagination sequence the request for page N+1 is issued only
\* once page N's result has been obtained, and it carries as cursor the
\* next_cursor of that result; the cursor of the caller's options goes into
\* the first request only.
C11_NextRequestFollowsResult ==
    pag.mode # "none" =>
        /\ Len(pag.requests) <= Len(pag.yielded) + 1
        /\ pag.gen = "awaiting" <=> Len(pag.requests) = Len(pag.yielded) + 1 /\ pag.gen # "threw"
        /\ Len(pag.requests) >= 1 =>
              IF GivenCursor.defined
              THEN "cursor" \in DOMAIN pag.requests[1] /\ pag.requests[1].cursor = GivenCursor.value
              ELSE "cursor" \notin DOMAIN pag.requests[1]
        /\ \A i \in 2..Len(pag.requests) :
              /\ "cursor" \in DOMAIN pag.requests[i]
              /\ pag.requests[i].cursor =
                    PageBody(pag.yielded[i - 1]).response_metadata.next_cursor
        /\ (pag.gen = "awaiting" /\ Len(pag.requests) >= 2) =>
              pag.requests[Len(pag.requests)].cursor =
                    pag.result.value.response_metadata.next_cursor

C11_Witness ==
    /\ pag.gen = "awaiting"
    /\ GivenCursor = Defined(CursorOf(1))
    /\ Len(pag.requests) = 2
    /\ pag.yielded = <<2>>
    /\ pag.requests[2].cursor = CursorOf(2)

\* The pages a sequence delivers when nothing stops it, and the page driven
\* paginate stops at: the first one the predicate is truthy on, else the last.
StopsOn == { i \in StartPage..pag.pages : i \in pag.shouldStop.value }
LastPageWanted ==
    IF StopsOn # {} THEN CHOOSE k \in StopsOn : \A j \in StopsOn : k <= j ELSE pag.pages
PagesWanted == LastPageWanted - StartPage + 1

\* C12: driven paginate folds the pages into an accumulator, the first call of
\* the reducer getting undefined, and resolves as soon as the stop predicate
\* is truthy on a page or the pages are exhausted: the accumulator is the fold
\* of the pages up to that page k, and page k + 1 is never requested.
C12_DrivenFoldsUntilStop ==
    pag.mode = "driven" =>
        /\ Len(pag.requests) <= (IF StartPage <= pag.pages THEN PagesWanted ELSE 1)
        /\ pag.promise = "pending" <=> pag.gen = "awaiting"
        /\ pag.promise = "rejected" <=> pag.gen = "threw"
        /\ pag.gen = "threw" => StartPage > pag.pages
        /\ (StartPage <= pag.pages /\ Len(pag.yielded) = PagesWanted) => pag.promise = "resolved"
        /\ pag.promise = "resolved" =>
              /\ pag.yielded = [i \in 1..PagesWanted |-> StartPage + i - 1]
              /\ Len(pag.requests) = PagesWanted
              /\ pag.index = (IF StopsOn # {} /\ PagesWanted > 1 THEN PagesWanted - 1 ELSE PagesWanted)
              /\ IF pag.reduce = "collect"
                 THEN pag.accumulator =
                        Defined([i \in 1..PagesWanted |->
                                    [page |-> StartPage + i - 1, index |-> i - 1,
                                     accumulated |-> i > 1]])
                 ELSE ~pag.accumulator.defined

C12_Witness ==
    /\ pag.mode = "driven"
    /\ pag.pages = 3
    /\ pag.shouldStop.value = {2, 3}
    /\ pag.reduce = "collect"
    /\ pag.promise = "resolved"
    /\ pag.yielded = <<1, 2>>
    /\ Len(pag.requests) = 2
    /\ Len(pag.accumulator.value) = 2

\* Does the caller's options object have a limit, of whatever type?
GivenLimit ==
    IF pag.given.defined /\ "limit" \in DOMAIN pag.given.value
    THEN Defined(pag.given.value.limit)
    ELSE Undefined

\* C13 as stated: a limit in the caller's options is removed from them and is
\* the limit of every request; without one every request has limit 200.
C13_AnyLimitReused ==
    pag.mode # "none" =>
        IF GivenLimit.defined
        THEN /\ "limit" \notin DOMAIN pag.options.value
             /\ \A i \in 1..Len(pag.requests) : pag.requests[i].limit = GivenLimit.value
        ELSE \A i \in 1..Len(pag.requests) : pag.requests[i].limit = Num(defaultPageSize)

\* C13 amended: a limit of type number in the caller's options is removed from
\* them and is the limit of every request, the first and the later ones; in
\* every other case, a limit that is not a number included, every request has
\* limit 200, and a limit that is not a number stays in the options.
C13_NumericLimitReused ==
    pag.mode # "none" =>
        IF GivenLimit.defined /\ GivenLimit.value.type = "number"
        THEN /\ "limit" \notin DOMAIN pag.options.value
             /\ pag.pageSize = GivenLimit.value.number
             /\ \A i \in 1..Len(pag.requests) : pag.requests[i].limit = GivenLimit.value
        ELSE /\ pag.pageSize = defaultPageSize
             /\ \A i \in 1..Len(pag.requests) : pag.requests[i].limit = Num(defaultPageSize)
             /\ GivenLimit.defined => pag.options.value.limit = GivenLimit.value

C13_Witness ==
    /\ GivenLimit = Defined(Num(50))
    /\ Len(pag.requests) = 3
    /\ pag.requests[1].limit = Num(50)
    /\ pag.requests[3].limit = Num(50)
    /\ "limit" \notin DOMAIN pag.options.value

\* C14: an apiCall that fails on what the server answered rejects with a
\* typed error, one carrying the code of a platform, HTTP, request or
\* rate-limit error, and with no result; this on every such failure path, a
\* 429 without a valid retry-after header and retries used up on 429s
\* included.
C14_FailsWithTypedError ==
    (/\ settled.outcome.kind = "rejected"
     /\ settled.outcome.error # OptionsTypeError
     /\ ~(HasExchanged /\ exchanged.response.net)) =>
        /\ pc[settled.call] = "rejected"
        /\ "result" \notin DOMAIN settled.outcome
        /\ "code" \in DOMAIN settled.outcome.error
        /\ settled.outcome.error.code \in
              {"slack_webapi_platform_error", "slack_webapi_http_error",
               "slack_webapi_request_error", "slack_webapi_rate_limited_error"}

\* C15: apiCall with options that are a string, a number or a boolean fails
\* at once: in the step of the invocation the call rejects, no task is added
\* to the queue or started, no HTTP exchange is made, and the retry driver is
\* never entered; a rejected call stays rejected.
C15_PrimitiveOptionsRejected ==
    [][ /\ (invoked'.call # 0 /\ invoked'.options \in {"string", "number", "boolean"}) =>
            LET c == invoked'.call
            IN  /\ pc[c] = "idle"
                /\ pc' = [pc EXCEPT ![c] = "rejected"]
                /\ settled' = [call |-> c, outcome |-> Rejected(OptionsTypeError)]
                /\ queue' = queue
                /\ arrivals' = arrivals
                /\ pendingCount' = pendingCount
                /\ attempts'[c] = 0
                /\ exchanged' = NoneExchanged
        /\ \A c \in Calls :
              (pc[c] = "rejected" /\ attempts[c] = 0) =>
                  pc'[c] = "rejected" /\ attempts'[c] = 0 ]_vars

C15_Witness ==
    /\ invoked.call = 2
    /\ invoked.options = "boolean"
    /\ pc[2] = "rejected"
    /\ pc[1] = "inflight"
    /\ settled.outcome = Rejected(OptionsTypeError)

\* C16: whatever buildResult returns has a response_metadata that is an
\* object, the empty one when the body had none and headers add nothing, and
\* with every field the body's response_metadata had when it had one; so has
\* the result apiCall resolves to and the one its platform error carries.
C16_ResponseMetadataPresent ==
    built.done =>
        LET data == built.response.data
            result == built.result
            given == IF "response_metadata" \in DOMAIN data
                     THEN data.response_metadata ELSE EmptyObject
            carried == IF built.outcome.kind = "resolved"
                       THEN built.outcome.result ELSE built.outcome.error.data
        IN  /\ "response_metadata" \in DOMAIN result
            /\ DOMAIN given \subseteq DOMAIN result.response_metadata
            /\ \A k \in DOMAIN given : result.response_metadata[k] = given[k]
            /\ DOMAIN result.response_metadata \subseteq
                  DOMAIN given \cup {"scopes", "acceptedScopes", "retryAfter"}
            /\ \A k \in DOMAIN data : result[k] = IF k = "response_metadata"
                                                  THEN result.response_metadata ELSE data[k]
            /\ carried = result

C16_Witness ==
    /\ built.done
    /\ "response_metadata" \notin DOMAIN built.response.data
    /\ built.outcome.kind = "rejected"
    /\ built.outcome.error.data.response_metadata = EmptyObject
    /\ built.response.retryAfter = NoHeader
    /\ ~Truthy(built.response.xOauthScopes)

\* The entries of the options given to the serializer that are not undefined
\* or null, and whether one of them is binary.
KeptEntries == SelectSeq(ser.options, LAMBDA e : e[2].type \notin {"undefined", "null"})
HasBinary == \E i \in 1..Len(KeptEntries) : KeptEntries[i][2].type \in {"blob", "file"}

\* C17: the serializer chooses the encoding by the presence of a binary value:
\* with one it returns a multipart form and does not set Content-Type to
\* application/x-www-form-urlencoded; with none it returns a URL-encoded string
\* and sets that Content-Type.  Entries that are undefined or null are dropped
\* either way.
C17_EncodingByBinary ==
    ser.done =>
        IF HasBinary
        THEN /\ ser.body.kind = "form"
             /\ [i \in 1..Len(ser.body.form) |-> ser.body.form[i].name]
                   = [i \in 1..Len(KeptEntries) |-> KeptEntries[i][1]]
             /\ ~(/\ ContentType \in DOMAIN ser.headers
                  /\ ser.headers[ContentType] = Str(FormUrlEncoded))
        ELSE /\ ser.body.kind = "string"
             /\ Len(ParseUrlEncoded(ser.body.string)) = Len(KeptEntries)
             /\ ContentType \in DOMAIN ser.headers
             /\ ser.headers[ContentType] = Str(FormUrlEncoded)

\* C18: for options without a binary value, parsing the serializer's output as
\* a URL-encoded form gives back the entries that are not undefined or null,
\* in the order of the options, each value as a string: a string itself, a
\* number or boolean by toString, a structure JSON-encoded.
C18_UrlEncodedRoundTrip ==
    (ser.done /\ ~HasBinary) =>
        LET Coerced(v) ==
                CASE v.type = "string" -> v.string
                  [] v = Num(0) -> <<"0">>
                  [] v = Num(12) -> <<"1", "2">>
                  [] v = Bool(FALSE) -> <<"f", "a", "l", "s", "e">>
                  [] v = Arr(<<1, 2>>) -> <<"[", "1", ",", "2", "]">>
        IN  /\ ser.body.kind = "string"
            /\ ParseUrlEncoded(ser.body.string)
                  = [i \in 1..Len(KeptEntries) |->
                        <<KeptEntries[i][1], Coerced(KeptEntries[i][2])>>]

C18_Witness ==
    /\ ser.done
    /\ Len(ser.options) = 2
    /\ ser.options[1] = <<<<"b", "=">>, Str(<<"a", " ", "&", "b", "=", "+", "%">>)>>
    /\ ser.options[2] = <<<<"a">>, Num(0)>>
    /\ ser.body.kind = "string"
    /\ ser.body.string =
          <<"b", "%", "3", "D", "=", "a", "+", "%", "2", "6", "b", "%", "3", "D", "%", "2", "B",
            "%", "2", "5", "&", "a", "=", "0">>

\* Tasks inside their rate-limit delay, and the tasks a step starts.
RateWaiting == { c \in Calls : pc[c] = "ratewait" }
StartedByStep == { d \in Calls : pc[d] # "inflight" /\ pc'[d] = "inflight" }

\* C19: while a task waits out the delay a 429 advised, the queue is paused and
\* no other task starts an HTTP exchange, whatever the interleaving and however
\* many tasks are waiting.
C19_PausedWhileAnyWaits ==
    /\ [](RateWaiting # {} => isPaused)
    /\ [][(RateWaiting \cap RateWaiting' # {}) => StartedByStep = {}]_vars

\* A step that ends the rate-limit wait of call c, and one that enqueues the
\* next attempt of call c.
WaitEnds(c) == pc[c] = "ratewait" /\ pc'[c] # "ratewait"
RetryEnqueued(c) == pc[c] = "backoff" /\ pc'[c] # "backoff"
SlotsAreInFlight == pendingCount = Cardinality(InFlight)

\* C20: the step that ends a rate-limit wait leaves the queue running, raises a
\* failure the retry driver retries while attempts remain, and frees the
\* task's slot; the next attempt of the call is enqueued only afterwards, by a
\* later step, behind every task then waiting, and starts at once only when
\* nothing waits, the queue runs and a slot is free.  The slots taken are at
\* all times those of the tasks in flight, at most one per call and at most
\* the concurrency.
C20_FreshAttemptAfterWait ==
    [][\A c \in Calls :
          /\ WaitEnds(c) =>
                /\ ~isPaused'
                /\ pc'[c] = IF CanRetry(attempts[c]) THEN "backoff" ELSE "rejected"
                /\ CanRetry(attempts[c]) =>
                      settled' = NoneSettled /\ attempts'[c] = attempts[c]
                /\ c \notin QueuedCalls'
                /\ pendingCount' = Cardinality(InFlight')
                /\ pendingCount' <= cfg.concurrency
          /\ RetryEnqueued(c) =>
                /\ SlotsAreInFlight
                /\ attempts'[c] = attempts[c] + 1
                /\ IF queue = <<>> /\ ~isPaused /\ pendingCount < cfg.concurrency
                   THEN pc'[c] = "inflight" /\ queue' = <<>>
                   ELSE /\ pc'[c] = "queued"
                        /\ queue' = Append(queue, [call |-> c, priority |-> 0])
                /\ \A d \in Calls \ {c} : pc'[d] = pc[d]
                /\ pendingCount' = Cardinality(InFlight')
                /\ pendingCount' <= cfg.concurrency]_vars

\* Call 1 is in its second attempt while call 2 is still in the wait of its
\* first and the queue runs: the wait of call 1 ended after call 2 paused the
\* queue, and the attempt of call 1 is the one that followed its wait.
C20_Witness ==
    /\ pc[1] = "inflight" /\ attempts[1] = 2
    /\ pc[2] = "ratewait" /\ attempts[2] = 1
    /\ pc[3] = "idle"
    /\ ~isPaused
    /\ pendingCount = 2

\* The latest step was an HTTP exchange that failed without a response.
ExchangedNetworkFailure == HasExchanged /\ exchanged.response.net

ExchangedPlatformFailure ==
    /\ ExchangedStatus(200)
    /\ ~("ok" \in DOMAIN exchanged.response.data /\ exchanged.response.data.ok)

\* C22: a 200 response whose body is not ok is not retried, however many
\* retries the policy has left: the call rejects with the platform error in
\* the step that received the response, its retry operation is over, it is
\* neither queued nor in flight, and a rejected call never starts an attempt
\* again.
C22_PlatformFailureNotRetried ==
    /\ [](ExchangedPlatformFailure =>
            LET c == exchanged.call
            IN  /\ SettledCall(c)
                /\ settled.outcome.kind = "rejected"
                /\ settled.outcome.error.code = "slack_webapi_platform_error"
                /\ pc[c] = "rejected"
                /\ attempts[c] = 0
                /\ c \notin QueuedCalls)
    /\ [][\A c \in Calls :
             pc[c] = "rejected" => (pc'[c] = "rejected" /\ attempts'[c] = 0)]_vars

C22_Witness ==
    /\ ExchangedPlatformFailure
    /\ "ok" \in DOMAIN exchanged.response.data
    /\ exchanged.attempt = 1
    /\ cfg.retries > 0
    /\ pc[exchanged.call] = "rejected"

\* C23: driven paginate calls the reducer once and then the stop predicate
\* once on every page it obtains, page after page: its calls are reduce(page
\* 1), shouldStop(page 1), reduce(page 2), shouldStop(page 2), ..., and the
\* index given to the reducer counts the pages from 0.  A collecting reducer
\* sees undefined as the accumulator on the first page only.
C23_ReduceThenTestPerPage ==
    pag.mode = "driven" =>
        /\ Len(pag.log) = 2 * Len(pag.yielded)
        /\ \A i \in 1..Len(pag.yielded) :
              /\ pag.log[2 * i - 1] =
                    [fn |-> "reduce", page |-> pag.yielded[i], index |-> i - 1]
              /\ pag.log[2 * i] = [fn |-> "shouldStop", page |-> pag.yielded[i]]
        /\ pag.reduce = "collect" /\ pag.yielded # <<>> =>
              /\ pag.accumulator.defined
              /\ pag.accumulator.value =
                    [i \in 1..Len(pag.yielded) |->
                        [page |-> pag.yielded[i], index |-> i - 1, accumulated |-> i > 1]]

C23_Witness ==
    /\ pag.mode = "driven"
    /\ pag.reduce = "collect"
    /\ pag.promise = "resolved"
    /\ Len(pag.yielded) >= 2
    /\ pag.log[3] = [fn |-> "reduce", page |-> pag.yielded[2], index |-> 1]
    /\ pag.log[4].fn = "shouldStop"

\* C24: the bare sequence is lazy.  Until the first pull no request has been
\* issued; the requests issued never outnumber the pulls; while the generator
\* is suspended no request is outstanding, each request having yielded its
\* result; and a step issues a request only if it is a pull, and then one.
C24_BarePaginateIsLazy ==
    /\ [](pag.mode = "bare" =>
            /\ Len(pag.requests) <= pag.pulls
            /\ pag.pulls = 0 => (pag.requests = <<>> /\ pag.gen = "suspendedStart")
            /\ pag.gen \in {"suspendedStart", "suspendedYield"} =>
                  Len(pag.requests) = Len(pag.yielded))
    /\ [][(pag'.mode = "bare" /\ pag'.requests # pag.requests) =>
             /\ pag.mode = "bare"
             /\ pag'.pulls = pag.pulls + 1
             /\ Len(pag'.requests) = Len(pag.requests) + 1]_vars

\* The consumer has pulled once and holds page 1, which names a next page; no
\* request for page 2 has been issued.
C24_Witness ==
    /\ pag.mode = "bare"
    /\ pag.gen = "suspendedYield"
    /\ pag.pulls = 1
    /\ pag.yielded = <<1>>
    /\ pag.pages >= 2
    /\ paginationOptionsForNextPage(pag.result, pag.pageSize).defined
    /\ Len(pag.requests) = 1

\* C25: whenever the queue is paused some task is inside its rate-limit wait,
\* so that with no task waiting the queue runs; and, every delay ending in
\* time, a paused queue is eventually running again.
C25_PausedOnlyWhileWaiting ==
    /\ [](isPaused => RateWaiting # {})
    /\ isPaused ~> ~isPaused

\* The queue is paused for one waiting task while another call waits in the
\* queue and a third waits for its retry timer.
C25_Witness ==
    /\ isPaused
    /\ Cardinality(RateWaiting) = 1
    /\ queue # <<>>
    /\ \E c \in Calls : pc[c] = "backoff"

\* Tasks whose HTTP exchange is under way.
Exchanging == { c \in Calls : pc[c] = "inflight" }

\* C26: a task keeps its slot while it waits out a rate-limit delay.  The slots
\* taken are those of the tasks exchanging and of the tasks waiting, so the
\* exchanges under way are at most the concurrency less the tasks waiting;
\* the step in which a task begins to wait frees no slot and starts no task,
\* and a waiting task's slot is counted until the step that ends its wait.
C26_WaitingTaskKeepsSlot ==
    /\ [](/\ pendingCount = Cardinality(Exchanging) + Cardinality(RateWaiting)
          /\ Cardinality(Exchanging) <= cfg.concurrency - Cardinality(RateWaiting))
    /\ [][\A c \in Calls :
             /\ (pc[c] = "inflight" /\ pc'[c] = "ratewait") =>
                   /\ pendingCount' = pendingCount
                   /\ queue' = queue
                   /\ StartedByStep = {}
             /\ (pc[c] = "ratewait" /\ pc'[c] = "ratewait") =>
                   pendingCount' >= 1 + Cardinality(Exchanging')]_vars

\* With two slots, call 2 waits out its delay and call 3 exchanges while the
\* queue runs: the next attempt of call 1 stays in the queue, both slots taken.
C26_Witness ==
    /\ cfg.concurrency = 2
    /\ ~isPaused
    /\ pc[2] = "ratewait"
    /\ pc[3] = "inflight"
    /\ pc[1] = "queued"
    /\ pendingCount = 2

\* Calls whose promise has settled, and calls made and not yet settled.
SettledCalls == { c \in Calls : pc[c] \in {"resolved", "rejected"} }
OpenCalls == { c \in Calls : pc[c] \notin {"idle", "resolved", "rejected"} }

\* C27: every exchange completing and every delay and timer ending, each call
\* made eventually settles, whatever the answers and the interleaving, and
\* once settled stays so; whenever no call is open no task is queued or in
\* flight, no slot is taken and the queue is not paused.
C27_EveryCallSettles ==
    /\ \A c \in Calls : (pc[c] # "idle") ~> (c \in SettledCalls)
    /\ [](OpenCalls = {} =>
            /\ queue = <<>>
            /\ InFlight = {}
            /\ pendingCount = 0
            /\ ~isPaused
            /\ \A c \in Calls : attempts[c] = 0)
    /\ [][\A c \in Calls : c \in SettledCalls => pc'[c] = pc[c]]_vars

\* All calls have settled, the last of them rejected after the wait that
\* followed a 429 on its last attempt, retries having been allowed.
C27_Witness ==
    /\ SettledCalls = Calls
    /\ cfg.retries > 0
    /\ ~cfg.rejectRateLimitedCalls
    /\ settled.outcome.kind = "rejected"
    /\ settled.outcome.error = RateLimitExceeded
    /\ queue = <<>>
    /\ pendingCount = 0

====
